---- MODULE Spec2Model ----
(***************************************************************************)
(* Model of the offload server (nph-offload.c part of src/mod_offload.c):  *)
(* request workers, the caching workers they fork, the named semaphore,    *)
(* the shared DownloadRecord table, the cache directory and the origin.    *)
(***************************************************************************)
EXTENDS Integers, Sequences, FiniteSets, TLC

\* ---------------------------------------------------------------- bounds
NumWorkers == 2         \* request workers (one process per request)
MaxLen == 2             \* largest origin Content-Length
MaxRecords == 2         \* slots of the table (MAX_DOWNLOAD_RECORDS, scaled)
MaxOriginChanges == 1   \* times the origin object is replaced
ChunkSize == 2          \* sizeof (data) of the copy loops, scaled
MaxReqLen == 3          \* largest Content-Length when one request is studied

\* ------------------------------------------------------ program constants
GMAXDUPEDOWNLOADS == 1
GTIMEOUT == 1           \* seconds, scaled to sleep(1) ticks

Workers == 1..NumWorkers
Child(w) == NumWorkers + w
Children == {Child(w) : w \in Workers}
Procs == Workers \cup Children
ParentOf(c) == c - NumWorkers

Addrs == {"10.0.0.1", "10.0.0.2"}
\* REMOTE_ADDR of a request; addresses are interchangeable, so the first
\* worker's client is taken to be the first address
ClientAddrs(w) == IF w = 1 THEN {"10.0.0.1"} ELSE Addrs
Guri == "/f"
NULL == 0

\* ------------------------------------------------------------ C strings
\* A C string is a tuple of one-character strings.
Digits == <<"0", "1", "2", "3", "4", "5", "6", "7", "8", "9">>
DigitVal(ch) == (CHOOSE i \in 1..10 : Digits[i] = ch) - 1
IsDigit(ch) == \E i \in 1..10 : Digits[i] = ch

RECURSIVE DigitRun(_)
\* number of leading digit characters of a string
DigitRun(s) ==
    IF s = <<>> \/ ~IsDigit(Head(s)) THEN 0 ELSE 1 + DigitRun(Tail(s))

RECURSIVE DigitsValue(_, _)
DigitsValue(s, n) ==
    IF n = 0 THEN 0 ELSE DigitsValue(s, n - 1) * 10 + DigitVal(s[n])

RECURSIVE SkipSpaces(_)
SkipSpaces(s) ==
    IF s # <<>> /\ Head(s) = " " THEN SkipSpaces(Tail(s)) ELSE s

atoi64(str) ==
    LET s == SkipSpaces(str)
        neg == s # <<>> /\ Head(s) = "-"
        t == IF neg THEN Tail(s) ELSE s
        v == DigitsValue(t, DigitRun(t))
    IN  IF neg THEN 0 - v ELSE v

RECURSIVE NatStr(_)
NatStr(n) ==
    IF n < 10 THEN <<Digits[n + 1]>>
    ELSE NatStr(n \div 10) \o <<Digits[(n % 10) + 1]>>

makeNum(num) == IF num < 0 THEN <<"-">> \o NatStr(0 - num) ELSE NatStr(num)

\* strchr: index of the first occurrence of ch in s, 0 when there is none
RECURSIVE strchrFrom(_, _, _)
strchrFrom(s, ch, i) ==
    IF i > Len(s) THEN 0
    ELSE IF s[i] = ch THEN i ELSE strchrFrom(s, ch, i + 1)

strchr(s, ch) == strchrFrom(s, ch, 1)

Upper == <<"A", "B", "D", "E", "G", "H", "O", "P", "S", "T", "W", "Y">>
Lower == <<"a", "b", "d", "e", "g", "h", "o", "p", "s", "t", "w", "y">>
tolower(ch) ==
    IF \E i \in 1..Len(Upper) : Upper[i] = ch
    THEN Lower[CHOOSE i \in 1..Len(Upper) : Upper[i] = ch] ELSE ch

\* strncasecmp(s, t, Len(t)) == 0
strncaseeq(s, t) ==
    /\ Len(s) >= Len(t)
    /\ \A i \in 1..Len(t) : tolower(s[i]) = tolower(t[i])

BytesEq == <<"b", "y", "t", "e", "s", "=">>

\* ----------------------------------------------------------- header map
\* list: the head of the sequence is the head of the linked list.
RECURSIVE listIndex(_, _, _)
listIndex(l, key, i) ==
    IF i > Len(l) THEN 0
    ELSE IF l[i][1] = key THEN i ELSE listIndex(l, key, i + 1)

listHas(l, key) == listIndex(l, key, 1) # 0

listFind(l, key) == l[listIndex(l, key, 1)][2]

listSet(l, key, value) ==
    LET i == listIndex(l, key, 1)
    IN  IF i # 0 THEN [l EXCEPT ![i] = <<key, value>>]
        ELSE <<<<key, value>>>> \o l

\* ------------------------------------------------------------ cache key
TrimChars == {" ", "\t", "VT", "\"", "'"}

RECURSIVE TrimLeft(_)
TrimLeft(s) ==
    IF s # <<>> /\ Head(s) \in TrimChars THEN TrimLeft(Tail(s)) ELSE s

RECURSIVE TrimRight(_)
TrimRight(s) ==
    IF s # <<>> /\ s[Len(s)] \in TrimChars
    THEN TrimRight(SubSeq(s, 1, Len(s) - 1)) ELSE s

etagToCacheFname(etag) == TrimRight(TrimLeft(etag))

IsWeakETag(etag) ==
    Len(etag) > 2 /\ etag[1] \in {"W", "w"} /\ etag[2] = "/"

Tags == {"a", "b"}
StrongTag == <<"\"", "a", "\"">>
WeakTag == <<"W", "/">> \o StrongTag
\* an entity tag without characters between its quotes
NoTag == ""
Keys == {etagToCacheFname(<<"\"", t, "\"">>) : t \in Tags}
          \cup {etagToCacheFname(<<"W", "/", "\"", t, "\"">>) : t \in Tags}
          \cup {etagToCacheFname(<<"\"", "\"">>)}
Paths == {"filedata", "metadata"} \X Keys

LastMods == {<<"T", "1">>, <<"T", "2">>}

\* ---------------------------------------------------------------- state
VARIABLES
    pc,               \* position of every process
    sem,              \* the named semaphore "SEM-" SHM_NAME
    GSemaphore,       \* per process: handle is non-NULL
    GSemaphoreOwned,  \* per process: holder counter
    shm,              \* the shared DownloadRecord table
    GAllDownloads,    \* per process: table is mapped
    GMyDownload,      \* per process: index of its slot, NULL if none
    dupes,            \* per worker: duplicates counted by the scan
    origin,           \* the object the origin serves for Guri
    originChanges,    \* how often the origin object was replaced
    dir,              \* cache directory: path -> inode, NULL if absent
    inodes,           \* inode -> [data]
    GRemoteAddr,      \* per worker: client address
    GFilePath,        \* per worker and its child: path of filedata
    GMetaDataPath,    \* per worker and its child: path of metadata
    head,             \* per worker: header list of the origin HEAD
    max,              \* per worker: atoi64(Content-Length)
    metadata,         \* per worker: header list used for the response
    sock,             \* per worker: origin GET connection
    cacheio,          \* per worker: inode behind the FILE written to
    metaout,          \* per worker: inode behind the metadata FILE
    cbr,              \* per caching worker: bytes written (br)
    io,               \* per worker: inode behind the read descriptor
    br,               \* per worker: bytes read by the streaming loop
    idle,             \* per worker: now - lastReadTime, in ticks
    sent,             \* per worker: body bytes written to the client
    GHttpStatus,      \* per worker: status of the response
    errmsg,           \* per worker: body of a failure() response
    resp,             \* per worker: response headers that were printed
    request,          \* per worker: method, URI, Range, If-Range
    reqRange,         \* per worker: startRange, endRange, reportRange
    warm              \* per worker: the request arrived at a complete entry

vars == <<pc, sem, GSemaphore, GSemaphoreOwned, shm, GAllDownloads,
          GMyDownload, dupes, origin, originChanges, dir, inodes,
          GRemoteAddr, GFilePath, GMetaDataPath, head, max, metadata, sock,
          cacheio, metaout, cbr, io, br, idle, sent, GHttpStatus, warm, errmsg,
          resp, request, reqRange>>

semVars == <<sem, GSemaphore, GSemaphoreOwned>>
shmVars == <<shm, GAllDownloads, GMyDownload, dupes>>
originVars == <<origin, originChanges>>
fsVars == <<dir, inodes>>
pathVars == <<GFilePath, GMetaDataPath>>
reqVars == <<GRemoteAddr, warm, request, pathVars, head, max, reqRange,
            metadata>>
missVars == <<sock, cacheio, metaout, cbr>>
readVars == <<io, br, idle, sent>>

Alive(p) == p \in Procs /\ pc[p] \notin {"unborn", "exited"}

\* a variant of process_dead for which every process is alive
neverDead(pid) == FALSE

process_dead(pid) == pid <= 0 \/ ~Alive(pid)

\* ------------------------------------------------------------ semaphore
\* A semaphore view st = [sem, g, o]: the shared semaphore, the caller's
\* GSemaphore (non-NULL) and the caller's GSemaphoreOwned.
SemOf(p) == [sem |-> sem, g |-> GSemaphore[p], o |-> GSemaphoreOwned[p]]

createSemaphore(s) ==
    IF s.exists THEN s ELSE [exists |-> TRUE, value |-> 1]

\* sem_wait would block the caller
getSemaphoreBlocks(st) == st.o = 0 /\ st.g /\ st.sem.value = 0

\* a variant without the counter's short cut: a nested call waits again
waitsAgain(st) ==
    IF st.g THEN [st EXCEPT !.o = @ + 1, !.sem.value = @ - 1]
    ELSE [sem |-> createSemaphore(st.sem), g |-> TRUE, o |-> 1]

getSemaphore(st) ==
    IF st.o > 0 THEN [st EXCEPT !.o = @ + 1]
    ELSE IF st.g
         THEN [st EXCEPT !.o = 1, !.sem.value = @ - 1]
         ELSE [sem |-> createSemaphore(st.sem), g |-> TRUE, o |-> 1]

putSemaphore(st) ==
    IF st.o = 0 THEN st
    ELSE IF st.o = 1
         THEN IF st.g THEN [st EXCEPT !.o = 0, !.sem.value = @ + 1]
                      ELSE [st EXCEPT !.o = 0]
         ELSE [st EXCEPT !.o = @ - 1]

\* variant of the release loop that is never entered
keepsHolds(st) == st

RECURSIVE releaseAll(_)
\* terminate(): while (GSemaphoreOwned > 0) putSemaphore();
releaseAll(st) == IF st.o > 0 THEN releaseAll(putSemaphore(st)) ELSE st

\* exit(): the process image, its handle and its counter are gone
ExitSem(p, st) ==
    /\ sem' = st.sem
    /\ GSemaphore' = [GSemaphore EXCEPT ![p] = FALSE]
    /\ GSemaphoreOwned' = [GSemaphoreOwned EXCEPT ![p] = 0]

SetSem(p, st) ==
    /\ sem' = st.sem
    /\ GSemaphore' = [GSemaphore EXCEPT ![p] = st.g]
    /\ GSemaphoreOwned' = [GSemaphoreOwned EXCEPT ![p] = st.o]

\* ------------------------------------------------- duplicate registry
ZeroSha == <<"", "">>
Sha1(addr, uri) == <<addr, uri>>

RECURSIVE scanRecords(_, _, _, _)
\* the for loop of setDownloadRecord; acc = [t, my, dupes]
scanRecords(acc, i, sha1, mypid) ==
    IF i > MaxRecords THEN acc
    ELSE LET pid == acc.t[i].pid
         IN  IF pid <= 0
             THEN scanRecords([acc EXCEPT !.my = i], i + 1, sha1, mypid)
             ELSE IF acc.t[i].sha1 = sha1
             THEN IF pid = mypid \/ process_dead(pid)
                  THEN scanRecords([acc EXCEPT !.t[i].pid = 0, !.my = i],
                                   i + 1, sha1, mypid)
                  ELSE scanRecords([acc EXCEPT !.dupes = @ + 1],
                                   i + 1, sha1, mypid)
             ELSE scanRecords(acc, i + 1, sha1, mypid)

\* --------------------------------------------------------- file system
FileSize(ino) == Len(inodes[ino].data)
Hole == <<"hole">>

\* fopen(path, "wb"): truncate the file in place or create it
fopenWb(fs, path) ==
    IF fs.dir[path] # NULL
    THEN [dir |-> fs.dir,
          inodes |-> [fs.inodes EXCEPT ![fs.dir[path]].data = <<>>],
          ino |-> fs.dir[path]]
    ELSE [dir |-> [fs.dir EXCEPT ![path] = Len(fs.inodes) + 1],
          inodes |-> Append(fs.inodes, [data |-> <<>>]),
          ino |-> Len(fs.inodes) + 1]

unlink(d, path) == [d EXCEPT ![path] = NULL]

\* write(2) of bytes at file offset off
WriteAt(data, off, bytes) ==
    LET end == off + Len(bytes)
        n == IF end > Len(data) THEN end ELSE Len(data)
    IN  [i \in 1..n |->
            IF i > off /\ i <= end THEN bytes[i - off]
            ELSE IF i <= Len(data) THEN data[i] ELSE Hole]

\* inodes still open somewhere
Handles(ioF, cacheioF) ==
    ({ioF[w] : w \in Workers} \cup {cacheioF[w] : w \in Workers}) \ {NULL}

\* the storage of a file is freed once it has no name and no open handle
reclaim(inos, d, hs) ==
    [i \in DOMAIN inos |->
        IF i \in hs \/ \E path \in Paths : d[path] = i
        THEN inos[i] ELSE [data |-> <<>>]]

RECURSIVE loadPairs(_, _)
loadPairs(pairs, l) ==
    IF pairs = <<>> THEN l
    ELSE loadPairs(Tail(pairs),
                   IF Head(pairs)[1] # "" 
                   THEN listSet(l, Head(pairs)[1], Head(pairs)[2]) ELSE l)

\* loadMetadata: NULL (the empty list) when the file cannot be opened
loadMetadata(fname) ==
    IF dir[fname] = NULL THEN <<>>
    ELSE loadPairs(inodes[dir[fname]].data, <<>>)

Min(a, b) == IF a < b THEN a ELSE b

\* --------------------------------------------------------------- origin
Tag(t) == IF t = NoTag THEN <<"\"", "\"">> ELSE <<"\"", t, "\"">>
OriginETag(o) == IF o.weak THEN <<"W", "/">> \o Tag(o.tag) ELSE Tag(o.tag)

\* a header the origin sends unless it is one of those it leaves out
sends(o, l, key, value) ==
    IF key \in o.missing THEN l ELSE listSet(l, key, value)

\* the header list readHeaders builds from the origin's response: the
\* status line, the entity headers, and WWW-Authenticate and Location when
\* the origin sends them
OriginHead(o) ==
    LET l1 == listSet(<<>>, "response",
                      <<"H", "T", "T", "P", "/", "1", ".", "1", " ">>
                        \o makeNum(o.code))
        l2 == listSet(l1, "response_code", makeNum(o.code))
        l3 == sends(o, l2, "ETag", OriginETag(o))
        l4 == sends(o, l3, "Content-Length", makeNum(o.clen))
        l5 == sends(o, l4, "Last-Modified", o.lm)
        l6 == IF o.auth
              THEN listSet(l5, "WWW-Authenticate", <<"Basic">>) ELSE l5
    IN  IF o.location # <<>>
        THEN listSet(l6, "Location", Head(o.location)) ELSE l6

OriginByte(lm, off) == <<lm, off>>
OriginBytes(s, n) == [i \in 1..n |-> OriginByte(s.lm, s.pos + i - 1)]
NoSock == [lm |-> <<>>, len |-> 0, pos |-> 0]

\* ------------------------------------------------------------ freshness
cachedMetadataMostRecent(md, hd, fpath) ==
    IF ~listHas(md, "Content-Length") THEN FALSE
    ELSE IF ~listHas(md, "ETag") THEN FALSE
    ELSE IF ~listHas(md, "Last-Modified") THEN FALSE
    ELSE IF listFind(md, "Content-Length") # listFind(hd, "Content-Length")
         THEN FALSE
    ELSE IF listFind(md, "ETag") # listFind(hd, "ETag") THEN FALSE
    ELSE IF /\ listFind(md, "Last-Modified") # listFind(hd, "Last-Modified")
            /\ \/ ~listHas(md, "X-Offload-Is-Weak")
               \/ listFind(md, "X-Offload-Is-Weak") # <<"0">>
         THEN FALSE
    ELSE IF dir[fpath] = NULL THEN FALSE
    ELSE IF FileSize(dir[fpath]) # atoi64(listFind(md, "Content-Length"))
         THEN IF ~listHas(md, "X-Offload-Caching-PID") THEN FALSE
              ELSE ~process_dead(atoi64(listFind(md, "X-Offload-Caching-PID")))
    ELSE TRUE

\* lines 2458-2481: the comparisons of cachedMetadataMostRecent that come
\* before it looks at the file
headersMostRecent(md, hd) ==
    /\ listHas(md, "Content-Length")
    /\ listHas(md, "ETag")
    /\ listHas(md, "Last-Modified")
    /\ listFind(md, "Content-Length") = listFind(hd, "Content-Length")
    /\ listFind(md, "ETag") = listFind(hd, "ETag")
    /\ \/ listFind(md, "Last-Modified") = listFind(hd, "Last-Modified")
       \/ /\ listHas(md, "X-Offload-Is-Weak")
          /\ listFind(md, "X-Offload-Is-Weak") = <<"0">>

\* lines 3089-3098 and 3158-3159: what serverMainline adds to the HEAD
processHead(hd) ==
    LET etag == listFind(hd, "ETag")
        h1 == listSet(hd, "X-Offload-Orig-ETag", etag)
        h2 == IF ~IsWeakETag(etag)
              THEN listSet(h1, "X-Offload-Is-Weak", <<"0">>)
              ELSE listSet(listSet(h1, "X-Offload-Is-Weak", <<"1">>),
                           "ETag", SubSeq(etag, 3, Len(etag)))
        h3 == listSet(h2, "X-Offload-Orig-URL", <<Guri>>)
    IN  listSet(h3, "X-Offload-Hostname", <<"example.com">>)

\* a variant: the headers are cached as the origin sent them
asSent(hd) == hd

\* the Content-Type default of the miss path
withContentType(hd) ==
    IF listHas(hd, "Content-Type") THEN hd
    ELSE listSet(hd, "Content-Type", <<"application/octet-stream">>)

\* a variant: the file name comes from the ETag as the origin sent it
cachePathOrig(prefix, hd) ==
    <<prefix, etagToCacheFname(listFind(hd, "X-Offload-Orig-ETag"))>>

\* lines 3153-3155: makeStr("%s/filedata-%s", GOFFLOADDIR, etagFname)
cachePath(prefix, hd) == <<prefix, etagToCacheFname(listFind(hd, "ETag"))>>
NoPath == <<>>

\* ------------------------------------------------------------- requests
GuriChars == <<"/", "f">>
RobotsTxt == <<"/", "r", "o", "b", "o", "t", "s", ".", "t", "x", "t">>
GET == <<"G", "E", "T">>
HEAD == <<"H", "E", "A", "D">>
strcaseeq(s, t) == Len(s) = Len(t) /\ strncaseeq(s, t)
isget(req) == strcaseeq(req.method, GET)
ishead(req) == strcaseeq(req.method, HEAD)

NoRequest ==
    [method |-> <<>>, uri |-> <<>>, range |-> <<>>, ifrange |-> FALSE]
\* GET of Guri without Range and If-Range
PlainGet ==
    [method |-> GET, uri |-> GuriChars, range |-> <<>>, ifrange |-> FALSE]

\* lines 2525-2533: the status failure_location takes from httperr
failureStatus(httperr) ==
    LET ptr == strchr(httperr, " ")
    IN  atoi64(IF strncaseeq(httperr, <<"H", "T", "T", "P">>) /\ ptr # 0
               THEN SubSeq(httperr, ptr + 1, Len(httperr))
               ELSE httperr)

NoRange == [start |-> 0, end |-> 0 - 1, report |-> FALSE]
\* location: the Location header failure_location prints, if any
NoResp == [code |-> 0, clen |-> <<>>, crange |-> <<>>, location |-> <<>>]

invalidContentRange(startR, endR, mx) ==
    \/ startR < 0 \/ startR >= mx
    \/ endR < 0 \/ endR >= mx
    \/ startR > endR

\* a variant: endRange is validated as the client sent it
noClamp(endR, mx) == endR

\* lines 3147-3148
clampEnd(endR, mx) == IF endR >= mx THEN mx - 1 ELSE endR

\* lines 3109-3151: hr is <<>> (no Range header) or <<header>>; the result
\* is the error message ("" when there is none) and the three locals
parseRange(hr, ifrange, mx) ==
    LET whole == [start |-> 0, end |-> mx - 1, report |-> FALSE]
        h == IF ifrange \/ hr = <<>> THEN <<>> ELSE hr[1]
        rest == SubSeq(h, 7, Len(h))
        pos == strchr(rest, "-")
        a == SubSeq(rest, 1, pos - 1)
        b == SubSeq(rest, pos + 1, Len(rest))
        r == IF pos = 0 THEN whole
             ELSE [start |-> IF a = <<>> THEN 0 ELSE atoi64(a),
                   end |-> IF b = <<>> THEN mx - 1 ELSE atoi64(b),
                   report |-> TRUE]
        c == [r EXCEPT !.end = clampEnd(@, mx)]
    IN  IF ifrange \/ hr = <<>>
        THEN [err |-> IF invalidContentRange(0, clampEnd(mx - 1, mx), mx)
                      THEN "Bad content range requested." ELSE "",
              range |-> whole]
        ELSE IF ~strncaseeq(h, BytesEq)
        THEN [err |-> "Only ranges of 'bytes' accepted.", range |-> whole]
        ELSE IF strchr(h, ",") # 0
        THEN [err |-> "Multiple ranges not currently supported",
              range |-> whole]
        ELSE [err |-> IF invalidContentRange(c.start, c.end, mx)
                      THEN "Bad content range requested." ELSE "",
              range |-> c]

\* a variant: Content-Length counts the bytes between the two offsets
respHeadersExclusive(r, mx) ==
    [code |-> IF r.report THEN 206 ELSE 200,
     clen |-> makeNum(r.end - r.start),
     crange |-> IF r.report
                THEN <<"b", "y", "t", "e", "s", " ">> \o makeNum(r.start)
                       \o <<"-">> \o makeNum(r.end) \o <<"/">> \o makeNum(mx)
                ELSE <<>>,
     location |-> <<>>]

\* lines 3234-3250: the response headers that depend on the range
respHeaders(r, mx) ==
    [code |-> IF r.report THEN 206 ELSE 200,
     clen |-> makeNum((r.end - r.start) + 1),
     crange |-> IF r.report
                THEN <<"b", "y", "t", "e", "s", " ">> \o makeNum(r.start)
                       \o <<"-">> \o makeNum(r.end) \o <<"/">> \o makeNum(mx)
                ELSE <<>>,
     location |-> <<>>]

\* ----------------------------------------------------------------- Init
\* the state of the processes before a request is served, whatever the
\* table in shared memory holds
InitLocal ==
    /\ pc = [p \in Procs |-> IF p \in Workers THEN "start" ELSE "unborn"]
    /\ sem = [exists |-> FALSE, value |-> 0]
    /\ GSemaphore = [p \in Procs |-> FALSE]
    /\ GSemaphoreOwned = [p \in Procs |-> 0]
    /\ GAllDownloads = [p \in Procs |-> FALSE]
    /\ GMyDownload = [p \in Procs |-> NULL]
    /\ dupes = [w \in Workers |-> 0]
    /\ originChanges = 0
    /\ GRemoteAddr = [w \in Workers |-> ""]
    /\ GFilePath = [w \in Workers |-> NoPath]
    /\ GMetaDataPath = [w \in Workers |-> NoPath]
    /\ head = [w \in Workers |-> <<>>]
    /\ max = [w \in Workers |-> 0]
    /\ metadata = [w \in Workers |-> <<>>]
    /\ sock = [w \in Workers |-> NoSock]
    /\ cacheio = [w \in Workers |-> NULL]
    /\ metaout = [w \in Workers |-> NULL]
    /\ cbr = [w \in Workers |-> 0]
    /\ io = [w \in Workers |-> NULL]
    /\ br = [w \in Workers |-> 0]
    /\ idle = [w \in Workers |-> 0]
    /\ sent = [w \in Workers |-> <<>>]
    /\ GHttpStatus = [w \in Workers |-> 0]
    /\ warm = [w \in Workers |-> FALSE]
    /\ errmsg = [w \in Workers |-> <<>>]
    /\ resp = [w \in Workers |-> NoResp]
    /\ request = [w \in Workers |-> NoRequest]
    /\ reqRange = [w \in Workers |-> NoRange]

\* ftruncate() of a new shared-memory object: every record is zero
InitProc ==
    /\ InitLocal
    /\ shm = [i \in 1..MaxRecords |-> [pid |-> 0, sha1 |-> ZeroSha]]

NoFiles == [dir |-> [path \in Paths |-> NULL], inodes |-> <<>>]

\* an empty cache directory and an origin that answers 200
Init ==
    /\ InitProc
    /\ origin \in [weak : BOOLEAN, lm : {<<"T", "1">>}, clen : 1..MaxLen,
                    code : {200}, tag : {"a"}, auth : {FALSE},
                    location : {<<>>}, missing : {{}}]
    /\ dir = NoFiles.dir
    /\ inodes = NoFiles.inodes

\* the caching worker of request v is gone and left all of filedata behind,
\* and the origin still serves the object it copied
Completed(v) ==
    /\ pc[Child(v)] = "exited"
    /\ originChanges = 0
    /\ GFilePath[v] # NoPath
    /\ dir[GFilePath[v]] # NULL
    /\ FileSize(dir[GFilePath[v]]) = origin.clen

Goto(p, label) == pc' = [pc EXCEPT ![p] = label]

\* failure(httperr, errmsg): record the status, print the error response,
\* then terminate(); the printed body is kept as <<text>>, or as the
\* characters of the origin's status line when that is what is printed
failure(w, code, msg) ==
    /\ GHttpStatus' = [GHttpStatus EXCEPT ![w] = IF @ = 0 THEN code ELSE @]
    /\ errmsg' = [errmsg EXCEPT ![w] = msg]
    /\ resp' = resp
    /\ Goto(w, "term")

\* failure_location(httperr, errmsg, location): as failure(), with the
\* status read from httperr and a Location header when location is given
failure_location(w, httperr, msg, location) ==
    /\ GHttpStatus' = [GHttpStatus EXCEPT ![w] =
                         IF @ = 0 THEN failureStatus(httperr) ELSE @]
    /\ errmsg' = [errmsg EXCEPT ![w] = msg]
    /\ resp' = [resp EXCEPT ![w].location = location]
    /\ Goto(w, "term")

DUPE_FORBID_TEXT ==
    "Please disable any 'download accelerators' and try again."

\* ------------------------------------------------------ request worker
\* Steps of one process that touch nothing shared, an acquire followed by
\* the section it opens, and a section's last step followed by its release
\* are taken as one step; every other sequence point is a step of its own.

\* a variant: setDownloadRecord is called for every method
neverSkips(req) == FALSE

\* line 3060: if (!ishead) setDownloadRecord()
skipsRecord(req) == ishead(req)

\* serverMainline up to setDownloadRecord's scan for the request req: the
\* URI test, robots.txt, the method and query-string test; for a GET
\* getSemaphore(), map the table and scan it
serve(w, req) ==
    /\ pc[w] = "start"
    /\ request' = [request EXCEPT ![w] = req]
    /\ warm' = [warm EXCEPT ![w] = \E v \in Workers \ {w} : Completed(v)]
    /\ \E addr \in ClientAddrs(w) :
         /\ GRemoteAddr' = [GRemoteAddr EXCEPT ![w] = addr]
         /\ IF req.uri = <<>> \/ Head(req.uri) # "/"
            THEN /\ failure(w, 500, <<"Bad request URI">>)
                 /\ UNCHANGED <<semVars, shmVars>>
            ELSE IF req.uri = RobotsTxt
            THEN /\ failure(w, 200, <<"User-agent: *\nDisallow: /">>)
                 /\ UNCHANGED <<semVars, shmVars>>
            ELSE IF strchr(req.uri, "?") # 0 \/ (~isget(req) /\ ~ishead(req))
            THEN /\ failure(w, 403,
                            <<"Offload server doesn't do dynamic content.">>)
                 /\ UNCHANGED <<semVars, shmVars>>
            ELSE IF skipsRecord(req)
            THEN /\ Goto(w, "head")
                 /\ UNCHANGED <<semVars, shmVars, GHttpStatus, errmsg, resp>>
            ELSE /\ ~getSemaphoreBlocks(SemOf(w))
                 /\ SetSem(w, getSemaphore(SemOf(w)))
                 /\ LET r == scanRecords(
                                [t |-> shm, my |-> NULL, dupes |-> 0], 1,
                                Sha1(addr, Guri), w)
                    IN  /\ shm' = r.t
                        /\ GMyDownload' = [GMyDownload EXCEPT ![w] = r.my]
                        /\ dupes' = [dupes EXCEPT ![w] = r.dupes]
                 /\ GAllDownloads' = [GAllDownloads EXCEPT ![w] = TRUE]
                 /\ Goto(w, "sdr_write")
                 /\ UNCHANGED <<GHttpStatus, errmsg, resp>>
    /\ UNCHANGED <<originVars, fsVars, pathVars, head, max, reqRange,
                   metadata, missVars, readVars>>

\* a GET of Guri without Range and If-Range arrives
Begin(w) == serve(w, PlainGet)

\* a variant: no number of duplicates is too many
neverTooMany(d) == FALSE

\* a variant of the test of line 2099 that rejects every request
alwaysTooMany(d) == TRUE

\* line 2099
tooManyDupes(d) == d >= GMAXDUPEDOWNLOADS

\* setDownloadRecord: reject, or take the slot, then putSemaphore()
SdrWrite(w) ==
    /\ pc[w] = "sdr_write"
    /\ IF tooManyDupes(dupes[w])
       THEN /\ failure(w, 403, <<DUPE_FORBID_TEXT>>)
            /\ UNCHANGED <<semVars, shm>>
       ELSE /\ shm' = IF GMyDownload[w] = NULL THEN shm
                      ELSE [shm EXCEPT ![GMyDownload[w]] =
                              [pid |-> w,
                               sha1 |-> Sha1(GRemoteAddr[w], Guri)]]
            /\ SetSem(w, putSemaphore(SemOf(w)))
            /\ Goto(w, "head")
            /\ UNCHANGED <<GHttpStatus, errmsg, resp>>
    /\ UNCHANGED <<GAllDownloads, GMyDownload, dupes, originVars, fsVars,
                   reqVars, missVars, readVars>>

\* a variant: every origin status is taken for a 200
neverForwards(code) == FALSE

\* line 3084: else if (iresponse != 200)
forwards(code) == code # 200

\* a variant: only the status 401 tells protected content
onlyUnauthorized(hd, code) == code = 401

\* line 3082
isProtected(hd, code) == code = 401 \/ listHas(hd, "WWW-Authenticate")

\* line 3086
isDynamic(hd) ==
    \/ ~listHas(hd, "ETag")
    \/ ~listHas(hd, "Content-Length")
    \/ ~listHas(hd, "Last-Modified")

\* http_head, the header checks that follow it, the Range header and the
\* cache paths; for a HEAD also the response headers and terminate()
HttpHead(w) ==
    /\ pc[w] = "head"
    /\ \E ok \in BOOLEAN :
         IF ~ok
         THEN /\ failure(w, 503,
                         <<"Couldn't connect to offload base server.">>)
              /\ UNCHANGED <<head, max, reqRange, pathVars, metadata>>
         ELSE IF isProtected(OriginHead(origin), origin.code)
         THEN /\ failure(w, 403,
                         <<"Offload server doesn't do protected content.">>)
              /\ UNCHANGED <<head, max, reqRange, pathVars, metadata>>
         ELSE IF forwards(origin.code)
         THEN LET response == listFind(OriginHead(origin), "response")
                  location ==
                    IF listHas(OriginHead(origin), "Location")
                    THEN <<listFind(OriginHead(origin), "Location")>>
                    ELSE <<>>
              IN  /\ failure_location(w, response, response, location)
                  /\ UNCHANGED <<head, max, reqRange, pathVars, metadata>>
         ELSE IF isDynamic(OriginHead(origin))
         THEN /\ failure(w, 403,
                         <<"Offload server doesn't do dynamic content.">>)
              /\ UNCHANGED <<head, max, reqRange, pathVars, metadata>>
         ELSE LET hd == processHead(OriginHead(origin))
                  mx == atoi64(listFind(hd, "Content-Length"))
                  pr == parseRange(request[w].range, request[w].ifrange, mx)
              IN  /\ max' = [max EXCEPT ![w] = mx]
                  /\ reqRange' = [reqRange EXCEPT ![w] = pr.range]
                  /\ IF pr.err # ""
                     THEN /\ failure(w, 400, <<pr.err>>)
                          /\ UNCHANGED <<head, pathVars, metadata>>
                     ELSE /\ head' = [head EXCEPT ![w] = hd]
                          /\ GFilePath' = [GFilePath EXCEPT ![w] =
                                             cachePath("filedata", hd)]
                          /\ GMetaDataPath' = [GMetaDataPath EXCEPT ![w] =
                                                 cachePath("metadata", hd)]
                          /\ errmsg' = errmsg
                          /\ IF ishead(request[w])
                             THEN /\ metadata' =
                                       [metadata EXCEPT ![w] = hd]
                                  /\ GHttpStatus' =
                                       [GHttpStatus EXCEPT ![w] =
                                          respHeaders(pr.range, mx).code]
                                  /\ resp' = [resp EXCEPT ![w] =
                                                respHeaders(pr.range, mx)]
                                  /\ Goto(w, "term")
                             ELSE /\ Goto(w, "cache")
                                  /\ UNCHANGED <<GHttpStatus, resp, metadata>>
    /\ UNCHANGED <<semVars, shmVars, originVars, fsVars, GRemoteAddr, warm,
                   request, missVars, readVars>>

\* getSemaphore(), loadMetadata and cachedMetadataMostRecent; on a hit
\* also the putSemaphore() that follows
CacheDecide(w) ==
    /\ pc[w] = "cache"
    /\ ~getSemaphoreBlocks(SemOf(w))
    /\ LET md == loadMetadata(GMetaDataPath[w])
       IN  IF cachedMetadataMostRecent(md, head[w], GFilePath[w])
           THEN /\ metadata' = [metadata EXCEPT ![w] = md]
                /\ SetSem(w, putSemaphore(getSemaphore(SemOf(w))))
                /\ Goto(w, "open_read")
           ELSE /\ SetSem(w, getSemaphore(SemOf(w)))
                /\ Goto(w, "miss_get")
                /\ UNCHANGED metadata
    /\ UNCHANGED <<shmVars, originVars, fsVars, GRemoteAddr, warm, request,
                   pathVars, head, max, reqRange, missVars, readVars,
                   GHttpStatus, errmsg, resp>>

\* the entity whose bytes the body of the origin's GET response carries:
\* the object, named by its Last-Modified, when the status is 200, and the
\* error document of the status otherwise
Entity(o) == IF o.code = 200 THEN o.lm ELSE makeNum(o.code)

\* the lengths that body can have
BodyLens(o) == IF o.code = 200 THEN {o.clen} ELSE 1..MaxLen

\* http_get(NULL): the GET connection to the origin; the headers of the
\* response, its status among them, are read and freed
MissGet(w) ==
    /\ pc[w] = "miss_get"
    /\ \E ok \in BOOLEAN :
         IF ok
         THEN /\ \E len \in BodyLens(origin) :
                   sock' = [sock EXCEPT ![w] =
                              [lm |-> Entity(origin), len |-> len, pos |-> 0]]
              /\ Goto(w, "miss_open")
              /\ UNCHANGED <<GHttpStatus, errmsg, resp>>
         ELSE /\ failure(w, 503,
                         <<"Couldn't connect to offload base server.">>)
              /\ UNCHANGED sock
    /\ UNCHANGED <<semVars, shmVars, originVars, fsVars, reqVars, cacheio,
                   metaout, cbr, readVars>>

\* a variant in which nukeRequestFromCache leaves the files alone
keepsFiles(d, w) == d

\* nukeRequestFromCache: getSemaphore, unlink both paths, putSemaphore
nukeDir(d, w) == unlink(unlink(d, GMetaDataPath[w]), GFilePath[w])

\* how the miss path can go on after http_get: fopen(GFilePath) fails,
\* fopen(GMetaDataPath) fails, fork() fails, or the caching worker is forked
MissOutcomes == {"no filedata", "no metadata", "no fork", "forked"}

\* fopen(GFilePath, "wb"), fopen(GMetaDataPath, "wb"), the Content-Type
\* default and cacheFork's fork(); st is the semaphore view the request
\* worker goes on with once fork() has returned the child's pid
missOpen(w, st) ==
    /\ pc[w] = "miss_open"
    /\ LET f == fopenWb([dir |-> dir, inodes |-> inodes], GFilePath[w])
           m == fopenWb(f, GMetaDataPath[w])
       IN  /\ \E out \in MissOutcomes :
                IF out = "forked"
                THEN /\ dir' = m.dir
                     /\ inodes' = m.inodes
                     /\ cacheio' = [cacheio EXCEPT ![w] = f.ino]
                     /\ metaout' = [metaout EXCEPT ![w] = m.ino]
                     /\ pc' = [pc EXCEPT ![w] = "miss_meta",
                                         ![Child(w)] = "c_loop"]
                     /\ sem' = st.sem
                     /\ GSemaphore' =
                          [GSemaphore EXCEPT ![Child(w)] = GSemaphore[w],
                                             ![w] = st.g]
                     /\ GSemaphoreOwned' =
                          [GSemaphoreOwned EXCEPT
                             ![Child(w)] = GSemaphoreOwned[w], ![w] = st.o]
                     /\ head' = [head EXCEPT ![w] = withContentType(@)]
                     /\ UNCHANGED <<GHttpStatus, errmsg, resp, sock>>
                ELSE IF out = "no filedata"
                THEN /\ sock' = [sock EXCEPT ![w] = NoSock]
                     /\ failure(w, 500, <<"Couldn't update cached data.">>)
                     /\ UNCHANGED <<fsVars, semVars, head, cacheio, metaout>>
                ELSE LET fs == IF out = "no metadata" THEN f ELSE m
                     IN  /\ dir' = nukeDir(fs.dir, w)
                         /\ inodes' = reclaim(fs.inodes, nukeDir(fs.dir, w),
                                              Handles(io, cacheio))
                         /\ sock' = [sock EXCEPT ![w] = NoSock]
                         /\ SetSem(w, putSemaphore(getSemaphore(SemOf(w))))
                         /\ failure(w, 500,
                                    IF out = "no metadata"
                                    THEN <<"Couldn't update metadata.">>
                                    ELSE <<"Couldn't fork for caching.">>)
                         /\ head' = IF out = "no metadata" THEN head
                                    ELSE [head EXCEPT
                                            ![w] = withContentType(@)]
                         /\ UNCHANGED <<cacheio, metaout>>
    /\ UNCHANGED <<shmVars, originVars, GRemoteAddr, warm, request, pathVars,
                   max, reqRange, metadata, cbr, readVars>>

\* a variant: the putSemaphore() that ends the section is called as soon as
\* cacheFork has returned, before the metadata is written
MissOpenThenRelease(w) == missOpen(w, putSemaphore(SemOf(w)))

MissOpen(w) == missOpen(w, SemOf(w))

\* X-Offload-Caching-PID, the fprintf loop, fclose(metaout), putSemaphore()
MissMeta(w) ==
    /\ pc[w] = "miss_meta"
    /\ LET h == listSet(head[w], "X-Offload-Caching-PID", makeNum(Child(w)))
       IN  /\ head' = [head EXCEPT ![w] = h]
           /\ metadata' = [metadata EXCEPT ![w] = h]
           /\ inodes' = reclaim([inodes EXCEPT ![metaout[w]].data = h], dir,
                                 Handles(io, cacheio))
    /\ metaout' = [metaout EXCEPT ![w] = NULL]
    /\ SetSem(w, putSemaphore(SemOf(w)))
    /\ Goto(w, "open_read")
    /\ UNCHANGED <<shmVars, originVars, dir, GRemoteAddr, warm, request,
                   pathVars, max, reqRange, sock, cacheio, cbr, readVars,
                   GHttpStatus, errmsg, resp>>

\* open(GFilePath, O_RDONLY) and the response headers
OpenRead(w) ==
    /\ pc[w] = "open_read"
    /\ IF dir[GFilePath[w]] = NULL
       THEN /\ failure(w, 500, <<"Couldn't access cached data.">>)
            /\ UNCHANGED readVars
       ELSE /\ io' = [io EXCEPT ![w] = dir[GFilePath[w]]]
            /\ GHttpStatus' = [GHttpStatus EXCEPT ![w] =
                                 respHeaders(reqRange[w], max[w]).code]
            /\ resp' = [resp EXCEPT ![w] = respHeaders(reqRange[w], max[w])]
            /\ errmsg' = errmsg
            /\ Goto(w, "stream")
            /\ UNCHANGED <<br, idle, sent>>
    /\ UNCHANGED <<semVars, shmVars, originVars, fsVars, reqVars, missVars>>

startRange(w) == reqRange[w].start
endRange(w) == reqRange[w].end

\* a variant: the size of a read does not look at startRange
readSizeAcross(startR, endR, b) == Min(ChunkSize, endR - b)

\* lines 3265-3270: readsize for the offset b; endR is endRange after its
\* increment and ChunkSize stands for sizeof (data)
readSize(startR, endR, b) ==
    LET rs0 == startR - b
        rs1 == IF rs0 <= 0 \/ rs0 > ChunkSize THEN ChunkSize ELSE rs0
    IN  IF rs1 > endR - b THEN endR - b ELSE rs1

\* a variant: the reader gives up once GTIMEOUT seconds have passed
timedOutEarly(secs) == secs >= GTIMEOUT

\* a variant: the reader waits for the caching worker without limit
waitsForever(secs) == FALSE

\* line 3291: now > (lastReadTime + GTIMEOUT), secs = now - lastReadTime
timedOut(secs) == secs > GTIMEOUT

\* one iteration of the streaming loop (or its exit)
Stream(w) ==
    /\ pc[w] = "stream"
    /\ LET end == endRange(w) + 1
           readsize == readSize(startRange(w), end, br[w])
           cursize == FileSize(io[w])
           len == Min(readsize, cursize - br[w])
           data == SubSeq(inodes[io[w]].data, br[w] + 1, br[w] + len)
       IN  IF br[w] >= end \/ readsize = 0
           THEN Goto(w, "term") /\ UNCHANGED <<br, idle, sent>>
           ELSE IF cursize < max[w] /\ cursize - br[w] <= 0
           THEN IF timedOut(idle[w])
                THEN Goto(w, "term") /\ UNCHANGED <<br, idle, sent>>
                ELSE /\ idle' = [idle EXCEPT ![w] =
                                     Min(@ + 1, GTIMEOUT + 1)]
                     /\ UNCHANGED <<pc, br, sent>>
           ELSE IF len <= 0
           THEN /\ Goto(w, "term")
                /\ idle' = [idle EXCEPT ![w] = 0]
                /\ UNCHANGED <<br, sent>>
           ELSE IF br[w] >= startRange(w) /\ br[w] < end
           THEN \E bw \in {0, len} :
                  /\ idle' = [idle EXCEPT ![w] = 0]
                  /\ IF bw # len
                     THEN Goto(w, "term") /\ UNCHANGED <<br, sent>>
                     ELSE /\ sent' = [sent EXCEPT ![w] = @ \o data]
                          /\ br' = [br EXCEPT ![w] = @ + len]
                          /\ UNCHANGED pc
           ELSE /\ idle' = [idle EXCEPT ![w] = 0]
                /\ br' = [br EXCEPT ![w] = @ + len]
                /\ UNCHANGED <<pc, sent>>
    /\ UNCHANGED <<semVars, shmVars, originVars, fsVars, reqVars, missVars,
                   io, GHttpStatus, errmsg, resp>>

\* a variant: terminate() takes the request's two files out of the cache
exitFilesNuked(d, w) == nukeDir(d, w)

\* lines 2371-2401: terminate() of a request worker removes no cache file
exitFiles(d, w) == d

\* a variant: the slot is left as it is
leaveDownloadRecord(t, my) == t

\* lines 2120-2121: the table after removeDownloadRecord's write
removeDownloadRecord(t, my) ==
    IF my = NULL THEN t ELSE [t EXCEPT ![my].pid = 0]

\* terminate(): removeDownloadRecord, the release loop and exit(0)
Terminate(w) ==
    /\ pc[w] = "term"
    /\ IF GAllDownloads[w]
       THEN /\ ~getSemaphoreBlocks(SemOf(w))
            /\ shm' = removeDownloadRecord(shm, GMyDownload[w])
            /\ ExitSem(w, releaseAll(putSemaphore(getSemaphore(SemOf(w)))))
       ELSE /\ ExitSem(w, releaseAll(SemOf(w)))
            /\ UNCHANGED shm
    /\ GAllDownloads' = [GAllDownloads EXCEPT ![w] = FALSE]
    /\ GMyDownload' = [GMyDownload EXCEPT ![w] = NULL]
    /\ dupes' = [dupes EXCEPT ![w] = 0]
    /\ GRemoteAddr' = [GRemoteAddr EXCEPT ![w] = ""]
    /\ head' = [head EXCEPT ![w] = <<>>]
    /\ metadata' = [metadata EXCEPT ![w] = <<>>]
    /\ io' = [io EXCEPT ![w] = NULL]
    /\ br' = [br EXCEPT ![w] = 0]
    /\ idle' = [idle EXCEPT ![w] = 0]
    /\ dir' = exitFiles(dir, w)
    /\ inodes' = reclaim(inodes, exitFiles(dir, w),
                         Handles([io EXCEPT ![w] = NULL], cacheio))
    /\ warm' = [warm EXCEPT ![w] = FALSE]
    /\ Goto(w, "exited")
    /\ UNCHANGED <<originVars, pathVars, max, reqRange, request,
                   missVars, sent, GHttpStatus, errmsg, resp>>

\* ------------------------------------------------------- caching worker
\* one successful iteration of cacheFork's loop: read, fwrite, fflush
CacheWrite(c) ==
    LET w == ParentOf(c)
        avail == sock[w].len - sock[w].pos
    IN  /\ pc[c] = "c_loop"
        /\ cbr[w] < max[w]
        /\ \E len \in 1..Min(ChunkSize, avail) :
             /\ inodes' = [inodes EXCEPT ![cacheio[w]].data =
                             WriteAt(@, cbr[w], OriginBytes(sock[w], len))]
             /\ sock' = [sock EXCEPT ![w].pos = @ + len]
             /\ cbr' = [cbr EXCEPT ![w] = @ + len]
        /\ UNCHANGED <<pc, semVars, shmVars, originVars, dir, reqVars,
                       cacheio, metaout, readVars, GHttpStatus, errmsg, resp>>

\* cacheFailure's call of nukeRequestFromCache, up to its getSemaphore()
enterNuke(c) ==
    /\ ~getSemaphoreBlocks(SemOf(c))
    /\ SetSem(c, getSemaphore(SemOf(c)))
    /\ Goto(c, "c_nuke")
    /\ UNCHANGED <<shmVars, originVars, fsVars, reqVars, missVars, readVars,
                   GHttpStatus, errmsg, resp>>

\* select timeout, read error or end of stream, fwrite or fflush failure
CacheFailure(c) ==
    /\ pc[c] = "c_loop"
    /\ cbr[ParentOf(c)] < max[ParentOf(c)]
    /\ enterNuke(c)

\* a caught signal
CacheProcessSig(c) ==
    /\ pc[c] = "c_loop"
    /\ enterNuke(c)

\* the process is gone: its socket and its FILE are closed
closeCache(c, d) ==
    /\ sock' = [sock EXCEPT ![ParentOf(c)] = NoSock]
    /\ cacheio' = [cacheio EXCEPT ![ParentOf(c)] = NULL]
    /\ cbr' = [cbr EXCEPT ![ParentOf(c)] = 0]
    /\ inodes' = reclaim(inodes, d,
                         Handles(io, [cacheio EXCEPT ![ParentOf(c)] = NULL]))

\* nukeRequestFromCache's unlinks and putSemaphore, then terminate()
CacheNuke(c) ==
    /\ pc[c] = "c_nuke"
    /\ dir' = nukeDir(dir, ParentOf(c))
    /\ ExitSem(c, putSemaphore(SemOf(c)))
    /\ closeCache(c, nukeDir(dir, ParentOf(c)))
    /\ Goto(c, "exited")
    /\ UNCHANGED <<shmVars, originVars, reqVars, metaout, readVars,
                   GHttpStatus, errmsg, resp>>

\* the loop is over: fclose(cacheio) and terminate()
CacheDone(c) ==
    /\ pc[c] = "c_loop"
    /\ cbr[ParentOf(c)] >= max[ParentOf(c)]
    /\ closeCache(c, dir)
    /\ ExitSem(c, SemOf(c))
    /\ Goto(c, "exited")
    /\ UNCHANGED <<shmVars, originVars, dir, reqVars, metaout, readVars,
                   GHttpStatus, errmsg, resp>>

\* SIGKILL or a crash: no handler runs
CacheKilled(c) ==
    /\ pc[c] = "c_loop"
    /\ closeCache(c, dir)
    /\ ExitSem(c, SemOf(c))
    /\ Goto(c, "exited")
    /\ UNCHANGED <<shmVars, originVars, dir, reqVars, metaout, readVars,
                   GHttpStatus, errmsg, resp>>

\* ---------------------------------------------------------- environment
\* the object at Guri is replaced on the origin
OriginChange ==
    /\ originChanges < MaxOriginChanges
    /\ \E lm \in LastMods, clen \in 1..MaxLen :
         /\ <<lm, clen>> # <<origin.lm, origin.clen>>
         /\ origin' = [origin EXCEPT !.lm = lm, !.clen = clen]
    /\ originChanges' = originChanges + 1
    /\ UNCHANGED <<pc, semVars, shmVars, fsVars, reqVars, missVars, readVars,
                   GHttpStatus, errmsg, resp>>

\* the object at Guri is removed from the origin
OriginGone ==
    /\ originChanges < MaxOriginChanges
    /\ origin.code = 200
    /\ origin' = [origin EXCEPT !.code = 404]
    /\ originChanges' = originChanges + 1
    /\ UNCHANGED <<pc, semVars, shmVars, fsVars, reqVars, missVars, readVars,
                   GHttpStatus, errmsg, resp>>

\* what a started request worker and a caching worker do
Run ==
    \/ \E w \in Workers :
         \/ SdrWrite(w) \/ HttpHead(w) \/ CacheDecide(w) \/ MissGet(w)
         \/ MissOpen(w) \/ MissMeta(w) \/ OpenRead(w) \/ Stream(w)
         \/ Terminate(w)
    \/ \E c \in Children :
         \/ CacheWrite(c) \/ CacheFailure(c) \/ CacheProcessSig(c)
         \/ CacheNuke(c) \/ CacheDone(c) \/ CacheKilled(c)

\* requests that overlap in time, against an origin that does not change
Next == (\E w \in Workers : Begin(w)) \/ Run

\* the strength of the ETag matters only once Last-Modified changes
InitStrong == Init /\ ~origin.weak

Spec == InitStrong /\ [][Next]_vars

\* a request arrives after the request workers before it have exited (their
\* caching workers may still run); the origin object may be replaced
BeginSeq(w) ==
    /\ \A v \in Workers \ {w} : pc[v] \in {"start", "exited"}
    /\ Begin(w)

NextSeq == (\E w \in Workers : BeginSeq(w)) \/ Run \/ OriginChange

SpecSeq == Init /\ [][NextSeq]_vars

\* --------------------------------------- a table that outlives its users
\* The shared-memory object outlives the processes: a request worker that
\* was killed left its record behind. DeadPid is the pid of such a worker.
DeadPid == 2 * NumWorkers + 1
Digests == {Sha1(addr, Guri) : addr \in Addrs}
LeftBehind ==
    {[pid |-> 0, sha1 |-> ZeroSha]}
      \cup {[pid |-> DeadPid, sha1 |-> d] : d \in Digests}

InitTable ==
    /\ InitLocal
    /\ shm \in [1..MaxRecords -> LeftBehind]
    /\ origin \in [weak : {FALSE}, lm : {<<"T", "1">>}, clen : {1},
                    code : {200}, tag : {"a"}, auth : {FALSE},
                    location : {<<>>}, missing : {{}}]
    /\ dir = NoFiles.dir
    /\ inodes = NoFiles.inodes

\* requests that come one after the other to a server with such a table
NextTable == (\E w \in Workers : BeginSeq(w)) \/ Run

SpecTable == InitTable /\ [][NextTable]_vars

\* ------------------------------------------------- one arbitrary request
\* the numbers a Range header may carry on either side of the dash
RangeNums == {<<>>} \cup {makeNum(n) : n \in 0..MaxReqLen}
Hdr(a, b) == BytesEq \o a \o <<"-">> \o b
Malformed ==
    {<<"i", "t", "e", "m", "s", "=", "0", "-", "0">>,
     Hdr(<<"0">>, <<"0">>) \o <<",", "1", "-", "1">>,
     BytesEq \o <<"1">>,
     Hdr(<<"0">>, <<"-", "1">>),
     <<"B", "Y", "T", "E", "S", "=", "0", "-", "0">>}
RangeHeaders == {Hdr(a, b) : a, b \in RangeNums} \cup Malformed

POST == <<"P", "O", "S", "T">>
Query == GuriChars \o <<"?", "x">>
Requests ==
    {[method |-> m, uri |-> GuriChars, range |-> r, ifrange |-> FALSE] :
        m \in {GET, HEAD}, r \in {<<>>} \cup {<<h>> : h \in RangeHeaders}}
    \cup {[method |-> GET, uri |-> GuriChars, range |-> <<h>>,
           ifrange |-> TRUE] :
             h \in {Hdr(<<"1">>, <<"1">>), Hdr(<<"1">>, <<"0">>)}}
    \cup {[method |-> m, uri |-> u, range |-> <<>>, ifrange |-> FALSE] :
             m \in {POST, <<"g", "e", "t">>, GET, HEAD},
             u \in {GuriChars, Query}}
    \cup {[method |-> GET, uri |-> u, range |-> <<>>, ifrange |-> FALSE] :
             u \in {<<>>, <<"f">>, RobotsTxt}}

\* what the miss path and a caching worker that ran to its end leave behind
\* for the object o
CachedEntry(o) ==
    LET hd == withContentType(processHead(OriginHead(o)))
        h == listSet(hd, "X-Offload-Caching-PID", makeNum(Child(2)))
        f == fopenWb(NoFiles, cachePath("filedata", hd))
        m == fopenWb(f, cachePath("metadata", hd))
    IN  [dir |-> m.dir,
         inodes |-> [m.inodes EXCEPT
                       ![f.ino].data =
                          OriginBytes([lm |-> o.lm, len |-> o.clen,
                                       pos |-> 0], o.clen),
                       ![m.ino].data = h]]

\* any origin answer; the cache is empty or holds the complete entry that
\* an earlier request left when the origin served the object
InitReq ==
    /\ InitProc
    /\ origin \in [weak : BOOLEAN, lm : {<<"T", "1">>}, clen : 0..MaxReqLen,
                    code : {200, 401, 404}, tag : Tags, auth : {FALSE},
                    location : {<<>>}, missing : {{}}]
    /\ \E fs \in {NoFiles, CachedEntry([origin EXCEPT !.code = 200])} :
         dir = fs.dir /\ inodes = fs.inodes

Arrive(w) == \E req \in Requests : serve(w, req)

\* one request, of any shape, served alone
NextReq == Arrive(1) \/ Run

SpecReq == InitReq /\ [][NextReq]_vars

\* one request whose caching worker, once forked, is left alone by the
\* origin and by signals; the scheduler runs it as long as it can go on
NextCopy ==
    \/ Arrive(1)
    \/ \E w \in Workers :
         \/ SdrWrite(w) \/ HttpHead(w) \/ CacheDecide(w) \/ MissGet(w)
         \/ MissOpen(w) \/ MissMeta(w) \/ OpenRead(w) \/ Stream(w)
         \/ Terminate(w)
    \/ \E c \in Children : CacheWrite(c) \/ CacheDone(c)

SpecCopy ==
    /\ InitReq /\ [][NextCopy]_vars
    /\ \A c \in Children :
         WF_vars(CacheWrite(c)) /\ WF_vars(CacheDone(c))

\* one request whose worker is scheduled as long as it has a step to take:
\* the iterations of the streaming loop (sleep(1) returns) and terminate();
\* nothing is assumed of the caching worker
SpecStream ==
    /\ InitReq /\ [][NextReq]_vars
    /\ \A w \in Workers : WF_vars(Stream(w)) /\ WF_vars(Terminate(w))

\* ------------------------------------------------------ any entity tag
\* one arbitrary request for an object whose ETag, strong or weak, may have
\* nothing between its quotes
InitKey ==
    /\ InitProc
    /\ origin \in [weak : BOOLEAN, lm : {<<"T", "1">>}, clen : {1},
                    code : {200}, tag : {"a", NoTag}, auth : {FALSE},
                    location : {<<>>}, missing : {{}}]
    /\ dir = NoFiles.dir
    /\ inodes = NoFiles.inodes

SpecKey == InitKey /\ [][NextReq]_vars

\* -------------------------------------------- any answer to the HEAD
\* the origin's answer may be a redirect, may carry WWW-Authenticate or
\* Location, and may leave out one of the entity headers
Found == 302
InitHead ==
    /\ InitProc
    /\ origin \in [weak : BOOLEAN, lm : {<<"T", "1">>}, clen : {1},
                    code : {200, Found, 401, 404}, tag : {"a"},
                    auth : BOOLEAN, location : {<<>>, <<<<"/", "g">>>>},
                    missing : {{}, {"ETag"}, {"Content-Length"},
                               {"Last-Modified"}}]
    /\ dir = NoFiles.dir
    /\ inodes = NoFiles.inodes

SpecHead == InitHead /\ [][NextReq]_vars

\* --------------------------------------------------------------- claims
\* a request worker between a getSemaphore that raised its holder counter
\* from 0 to 1 and the putSemaphore that lowers it back to 0
InSection(w) == pc[w] \notin {"start", "exited"} /\ GSemaphoreOwned[w] > 0

\* C1: at most one request worker at a time is inside a mutex-protected
\* section.
C1_MutualExclusion ==
    \A v, w \in Workers : (InSection(v) /\ InSection(w)) => v = w

\* a live request worker that setDownloadRecord admitted and that points
\* at a slot of the table
HoldsSlot(w) ==
    /\ pc[w] \notin {"start", "sdr_write", "exited"}
    /\ GMyDownload[w] # NULL

TableNotFull == \E i \in 1..MaxRecords : shm[i].pid <= 0

\* C2: with a table that is not full, for every digest the number of live
\* request workers holding a DownloadSlot that carries the digest is at
\* most GMAXDUPEDOWNLOADS.
C2_DuplicateCap ==
    TableNotFull =>
      \A d \in Digests :
        Cardinality({w \in Workers :
                       HoldsSlot(w) /\ shm[GMyDownload[w]].sha1 = d})
          <= GMAXDUPEDOWNLOADS

\* a live caching worker in cacheFork's copy loop
Writing(c) == pc[c] = "c_loop"

\* C3: no two live caching workers write filedata of the same CacheKey.
C3_OneCachingWorker ==
    \A c, d \in Children :
      (/\ Writing(c)
       /\ Writing(d)
       /\ GFilePath[ParentOf(c)] = GFilePath[ParentOf(d)]) => c = d

\* C4: a GET that arrives after the caching worker of an earlier GET of the
\* same unchanged object has completed issues no origin GET and forks no
\* caching worker.
C4_WarmHit ==
    \A w \in Workers : warm[w] => pc[w] \notin {"miss_open", "miss_meta"}

\* the claim's case of C5 for the request of worker w: weak metadata that
\* agrees with the HEAD on Content-Length and ETag, complete filedata
WeakAndComplete(w) ==
    LET md == loadMetadata(GMetaDataPath[w])
    IN  /\ listHas(md, "X-Offload-Is-Weak")
        /\ listFind(md, "X-Offload-Is-Weak") = <<"1">>
        /\ listHas(md, "Content-Length")
        /\ listFind(md, "Content-Length") = listFind(head[w], "Content-Length")
        /\ listHas(md, "ETag")
        /\ listFind(md, "ETag") = listFind(head[w], "ETag")
        /\ listHas(md, "Last-Modified")
        /\ dir[GFilePath[w]] # NULL
        /\ FileSize(dir[GFilePath[w]]) =
             atoi64(listFind(md, "Content-Length"))

\* C5: weak metadata that matches the HEAD on Content-Length and ETag, with
\* complete filedata, is reported fresh whatever Last-Modified says.
C5_WeakFresh ==
    \A w \in Workers :
      (pc[w] = "cache" /\ WeakAndComplete(w)) =>
        cachedMetadataMostRecent(loadMetadata(GMetaDataPath[w]), head[w],
                                 GFilePath[w])

FilePaths == {path \in Paths : path[1] = "filedata"}

\* C6: as long as a filedata file keeps its name, its size never decreases.
C6_SizeMonotone ==
    [][\A path \in FilePaths :
         (dir[path] # NULL /\ dir'[path] = dir[path]) =>
           Len(inodes'[dir[path]].data) >= Len(inodes[dir[path]].data)]_vars

C8_CompleteOrRemoved ==
    \A w \in Workers :
      (Writing(Child(w)) /\ cbr[w] >= max[w]) =>
        \/ FileSize(cacheio[w]) = max[w]
        \/ (dir[GFilePath[w]] = NULL /\ dir[GMetaDataPath[w]] = NULL)

\* the claim's case of C9 for the request of worker w: the metadata names a
\* caching worker that is not alive and filedata is short
Abandoned(w) ==
    LET md == loadMetadata(GMetaDataPath[w])
    IN  /\ listHas(md, "X-Offload-Caching-PID")
        /\ listHas(md, "Content-Length")
        /\ process_dead(atoi64(listFind(md, "X-Offload-Caching-PID")))
        /\ dir[GFilePath[w]] # NULL
        /\ FileSize(dir[GFilePath[w]]) <
             atoi64(listFind(md, "Content-Length"))

\* C9: the miss path that replaces an abandoned entry forks its caching
\* worker on new files: the two old files were unlinked first.
C9_AbandonedRemoved ==
    [][\A w \in Workers :
         (pc[w] = "miss_open" /\ pc'[w] = "miss_meta" /\ Abandoned(w)) =>
           /\ dir'[GFilePath[w]] # dir[GFilePath[w]]
           /\ dir'[GMetaDataPath[w]] # dir[GMetaDataPath[w]]]_vars

\* C10: while a caching worker is in nukeRequestFromCache, between its
\* getSemaphore and its putSemaphore, no request worker is inside a
\* mutex-protected section.
C10_NukeUnderMutex ==
    \A c \in Children :
      pc[c] = "c_nuke" => \A w \in Workers : ~InSection(w)

\* the response headers of worker w have been printed and its metadata list
\* is still in memory
Responded(w) == pc[w] \in {"stream", "term"} /\ resp[w] # NoResp

\* C11: on every 206 the Content-Length header is endRange - startRange + 1
\* and Content-Range is "bytes startRange-endRange/Content-Length"; on every
\* 200 the Content-Length header is the metadata's Content-Length and no
\* Content-Range is sent.  The status is 200 or 206.
C11_ResponseLength ==
    \A w \in Workers :
      Responded(w) =>
        LET cl == listFind(metadata[w], "Content-Length")
        IN  /\ GHttpStatus[w] = resp[w].code
            /\ resp[w].code \in {200, 206}
            /\ resp[w].code = 206 =>
                  /\ atoi64(resp[w].clen) = endRange(w) - startRange(w) + 1
                  /\ resp[w].clen = NatStr(endRange(w) - startRange(w) + 1)
                  /\ resp[w].crange =
                       <<"b", "y", "t", "e", "s", " ">>
                         \o NatStr(startRange(w)) \o <<"-">>
                         \o NatStr(endRange(w)) \o <<"/">> \o cl
            /\ resp[w].code = 200 =>
                  /\ resp[w].clen = cl
                  /\ resp[w].crange = <<>>

\* a 206 for a range strictly inside the object is being streamed
C11_Witness ==
    \E w \in Workers :
      /\ Responded(w) /\ pc[w] = "stream" /\ resp[w].code = 206
      /\ startRange(w) > 0 /\ endRange(w) < max[w] - 1

\* C12: every read of the streaming loop takes the filedata bytes at the
\* offsets br..br'-1; a read below startRange ends at startRange at the
\* latest and writes nothing, a read at or above startRange is written
\* whole and ends at endRange at the latest; so a loop that ran to its end
\* has written the bytes at startRange..endRange, in order, each once.
C12_StreamExact ==
    /\ [](\A w \in Workers :
            (pc[w] = "term" /\ io[w] # NULL /\ br[w] = endRange(w) + 1) =>
               sent[w] = SubSeq(inodes[io[w]].data, startRange(w) + 1,
                                endRange(w) + 1))
    /\ [][\A w \in Workers :
            pc[w] = "stream" =>
              /\ br'[w] >= br[w]
              /\ br'[w] <= endRange(w) + 1
              /\ br[w] < startRange(w) =>
                    br'[w] <= startRange(w) /\ sent'[w] = sent[w]
              /\ br[w] >= startRange(w) =>
                    sent'[w] = sent[w] \o SubSeq(inodes[io[w]].data,
                                                br[w] + 1, br'[w])]_vars

\* a GET of several bytes from an offset above 0 ran to its end on the
\* filedata that the caching worker of this very request was writing
C12_Witness ==
    \E w \in Workers :
      /\ pc[w] = "term" /\ io[w] # NULL /\ br[w] = endRange(w) + 1
      /\ startRange(w) > 0 /\ endRange(w) > startRange(w)
      /\ pc[Child(w)] # "unborn"

\* the range start..end0 of an object of mx bytes, end0 brought down to
\* mx - 1 when it is mx or more
ClampedRange(start, end0, mx) ==
    [start |-> start, end |-> IF end0 >= mx THEN mx - 1 ELSE end0,
     report |-> TRUE]

BadRange(r, mx) ==
    r.start < 0 \/ r.start >= mx \/ r.end < 0 \/ r.start > r.end

\* what the claim says of the Range header h for an object of mx bytes: the
\* header is bytes=<a>-<b>, either side possibly empty, and rg is its
\* clamped range, or it has no dash and the whole object is meant
RangeSays(h, mx, bad, rg) ==
    \/ /\ ~strncaseeq(h, BytesEq) \/ \E i \in 1..Len(h) : h[i] = ","
       /\ bad
    \/ /\ strncaseeq(h, BytesEq) /\ \A i \in 1..Len(h) : h[i] # ","
       /\ \/ \E a \in RangeNums, b \in RangeNums \cup {<<"-", "1">>} :
               /\ h = SubSeq(h, 1, 6) \o a \o <<"-">> \o b
               /\ LET r == ClampedRange(
                              IF a = <<>> THEN 0 ELSE atoi64(a),
                              IF b = <<>> THEN mx - 1 ELSE atoi64(b), mx)
                  IN  bad = BadRange(r, mx) /\ (~bad => rg = r)
          \/ /\ \A i \in 1..Len(h) : h[i] # "-"
             /\ bad = (mx = 0)
             /\ ~bad => rg = [start |-> 0, end |-> mx - 1, report |-> FALSE]

\* the step that leaves the HEAD stage after the origin answered 200
RangeStep(w) ==
    /\ pc[w] = "head" /\ pc'[w] # "head"
    /\ origin.code = 200 /\ GHttpStatus'[w] # 503
    /\ request[w].range # <<>>

\* C13: a Range header that is looked at (If-Range makes the program drop
\* it before any check) and that does not start with bytes= or holds a comma
\* gets 400; otherwise endRange is clamped to max - 1 and the request gets
\* 400 exactly if then startRange < 0, startRange >= max, endRange < 0 or
\* startRange > endRange.  A 400 has no other cause.
C13_RangeValidation ==
    /\ [][\A w \in Workers :
            (RangeStep(w) /\ ~request[w].ifrange) =>
              RangeSays(request[w].range[1], origin.clen,
                        GHttpStatus'[w] = 400, reqRange'[w])]_vars
    /\ [](\A w \in Workers :
            GHttpStatus[w] = 400 =>
              \/ request[w].range = <<>> /\ max[w] = 0
              \/ request[w].ifrange /\ max[w] = 0
              \/ /\ request[w].range # <<>> /\ ~request[w].ifrange
                 /\ RangeSays(request[w].range[1], max[w], TRUE, NoRange))

\* bytes=1-3 for an object of 2 bytes was accepted as the range 1..1
C13_Witness ==
    \E w \in Workers :
      /\ pc[w] = "cache" /\ ~request[w].ifrange /\ max[w] = 2
      /\ request[w].range = <<Hdr(<<"1">>, <<"3">>)>>
      /\ reqRange[w] = [start |-> 1, end |-> 1, report |-> TRUE]

\* worker w is on its way out of setDownloadRecord through failure()
Rejected(w) ==
    pc[w] \in {"sdr_write", "term"} /\ dupes[w] >= GMAXDUPEDOWNLOADS

\* a live request worker other than w holds a slot with the digest d
OtherHolds(w, d) ==
    \E v \in Workers \ {w}, i \in 1..MaxRecords :
      Alive(v) /\ shm[i].pid = v /\ shm[i].sha1 = d

\* C14: a GET that scans the table while another live request of the same
\* address and URI holds a slot is rejected: it ends with 403 and
\* DUPE_FORBID_TEXT, never has a slot with its pid, never gets to the origin
\* or to a cache file, and its steps leave the slots of the live requests
\* it collided with as they are.
C14_DuplicateRejected ==
    /\ [][\A w \in Workers :
            /\ (pc[w] = "start" /\ pc'[w] # "start"
                   /\ OtherHolds(w, Sha1(GRemoteAddr'[w], Guri)))
                 => Rejected(w)'
            /\ (Rejected(w) /\ pc'[w] # pc[w]) =>
                 /\ pc'[w] \in {"term", "exited"}
                 /\ GHttpStatus'[w] = 403
                 /\ errmsg'[w] = <<DUPE_FORBID_TEXT>>
                 /\ \A i \in 1..MaxRecords :
                      /\ shm'[i].pid # w
                      /\ (/\ shm[i].pid \in Workers \ {w}
                          /\ Alive(shm[i].pid)
                          /\ shm[i].sha1 = Sha1(GRemoteAddr[w], Guri))
                         => shm'[i] = shm[i]
                 /\ UNCHANGED <<fsVars, sock>>]_vars
    /\ [](\A w \in Workers :
            Rejected(w) =>
              /\ head[w] = <<>> /\ GFilePath[w] = NoPath
              /\ pc[Child(w)] = "unborn"
              /\ \A i \in 1..MaxRecords : shm[i].pid # w)

\* one request was turned away as a duplicate and has exited; the other
\* still holds its slot and has streamed the whole object with status 200
C14_Witness ==
    \E w \in Workers, v \in Workers :
      /\ pc[w] = "exited" /\ GHttpStatus[w] = 403
      /\ errmsg[w] = <<DUPE_FORBID_TEXT>>
      /\ pc[v] = "term" /\ GHttpStatus[v] = 200
      /\ \E i \in 1..MaxRecords : shm[i].pid = v
      /\ br[v] = max[v] /\ Len(sent[v]) = max[v]

IsHead(w) == pc[w] # "start" /\ ishead(request[w])

\* C16: a HEAD request never has the semaphore or the table, has no cache
\* file, origin GET or caching worker, and changes neither the semaphore,
\* the table nor the cache directory; once its URI is accepted it does one
\* origin HEAD and goes from there straight to terminate(), with response
\* headers built from the answer when the answer is usable.
C16_HeadOnly ==
    /\ [](\A w \in Workers :
            IsHead(w) =>
              /\ pc[w] \in {"head", "term", "exited"}
              /\ ~GSemaphore[w] /\ GSemaphoreOwned[w] = 0
              /\ ~GAllDownloads[w] /\ GMyDownload[w] = NULL
              /\ io[w] = NULL /\ cacheio[w] = NULL /\ metaout[w] = NULL
              /\ sock[w] = NoSock /\ pc[Child(w)] = "unborn"
              /\ (pc[w] = "term" /\ resp[w] # NoResp) =>
                    /\ metadata[w] = processHead(OriginHead(origin))
                    /\ resp[w] = respHeaders(reqRange[w], origin.clen)
                    /\ GHttpStatus[w] = resp[w].code)
    /\ [][\A w \in Workers :
            (ishead(request'[w]) /\ pc'[w] # pc[w]) =>
              /\ UNCHANGED <<sem, shm, dir, inodes>>
              /\ (pc[w] = "start" /\ strchr(request'[w].uri, "?") = 0)
                   => pc'[w] = "head"
              /\ pc[w] = "head" => pc'[w] = "term"
              /\ pc[w] = "term" => pc'[w] = "exited"]_vars

\* a HEAD request with a Range got its 206 headers while the cache holds
\* the object, and is about to terminate
C16_Witness ==
    \E w \in Workers :
      /\ IsHead(w) /\ pc[w] = "term" /\ resp[w].code = 206
      /\ dir[cachePath("filedata", metadata[w])] # NULL

\* the request of worker w is one the program refuses: a query string, a
\* method other than GET and HEAD, an origin status other than 200 once the
\* HEAD is done, or a Range answered with 400
Refused(w) ==
    /\ pc[w] # "start"
    /\ \/ strchr(request[w].uri, "?") # 0
       \/ ~isget(request[w]) /\ ~ishead(request[w])
       \/ /\ pc[w] \notin {"sdr_write", "head"} /\ origin.code # 200
          /\ request[w].uri # <<>> /\ Head(request[w].uri) = "/"
          /\ request[w].uri # RobotsTxt
       \/ GHttpStatus[w] = 400

\* C17: a refused request ends in failure() with 400, 403 or the origin's
\* status (503 when the origin could not be asked) and the cache is as it
\* was before the request: same directory, same file contents, no file
\* open, no origin GET, no caching worker.
C17_NoCacheImpact ==
    \A w \in Workers :
      Refused(w) =>
        /\ pc[w] \in {"sdr_write", "head", "term", "exited"}
        /\ pc[w] \in {"term", "exited"} =>
              GHttpStatus[w] \in {400, 403, 503, origin.code} \ {200}
        /\ [dir |-> dir, inodes |-> inodes]
              \in {NoFiles, CachedEntry([origin EXCEPT !.code = 200])}
        /\ sock[w] = NoSock /\ io[w] = NULL
        /\ cacheio[w] = NULL /\ metaout[w] = NULL
        /\ pc[Child(w)] = "unborn"

\* the origin's 404 was forwarded for an object the cache still holds
C17_Witness ==
    \E w \in Workers :
      /\ pc[w] = "exited" /\ GHttpStatus[w] = 404 /\ isget(request[w])
      /\ [dir |-> dir, inodes |-> inodes]
            = CachedEntry([origin EXCEPT !.code = 200])

\* worker w left the streaming loop because fwrite wrote less than it was
\* given: it is not at endRange, and it had just read (the stall exit needs
\* more than GTIMEOUT seconds without a read)
WriteFailed(w) ==
    /\ pc[w] = "term" /\ io[w] # NULL
    /\ br[w] >= startRange(w) /\ br[w] <= endRange(w)
    /\ idle[w] = 0

Stalled(w) ==
    /\ pc[w] = "stream" /\ br[w] <= endRange(w)
    /\ FileSize(io[w]) < max[w] /\ FileSize(io[w]) <= br[w]

\* worker w gave up on a stalled filedata
StallExit(w) ==
    /\ pc[w] = "term" /\ io[w] # NULL
    /\ br[w] <= endRange(w) /\ idle[w] # 0

\* C19: a reader leaves the loop on a stalled filedata only when more than
\* GTIMEOUT seconds have passed since its last read, and neither that step
\* nor the terminate() after it changes a directory entry or a named file.
C19_StallTimeout ==
    [][\A w \in Workers :
         /\ (Stalled(w) /\ pc'[w] = "term") =>
               /\ idle[w] > GTIMEOUT
               /\ StallExit(w)'
               /\ UNCHANGED fsVars
         /\ (StallExit(w) /\ pc'[w] = "exited") =>
               /\ idle[w] > GTIMEOUT
               /\ dir' = dir
               /\ \A path \in Paths :
                    dir[path] # NULL =>
                      inodes'[dir[path]] = inodes[dir[path]]]_vars

\* a reader gave up after GTIMEOUT + 1 seconds on a filedata that is still
\* short and still has its name
C19_Witness ==
    \E w \in Workers :
      /\ StallExit(w) /\ idle[w] = GTIMEOUT + 1
      /\ FileSize(io[w]) < max[w] /\ dir[GFilePath[w]] = io[w]

\* C20: a metadata file that has been written has the name metadata-<k>
\* with k = etagToCacheFname of the ETag it stores; its X-Offload-Orig-ETag
\* is the origin's ETag unmodified, and for a weak origin ETag the stored
\* ETag, and so k, is that value without its leading W/.
C20_MetadataKey ==
    \A k \in Keys :
      LET md == loadMetadata(<<"metadata", k>>)
          etag == listFind(md, "ETag")
          orig == listFind(md, "X-Offload-Orig-ETag")
      IN  md # <<>> =>
            /\ k = etagToCacheFname(etag)
            /\ orig = OriginETag(origin)
            /\ IF origin.weak
               THEN /\ orig = <<"W", "/">> \o etag
                    /\ etag = Tag(origin.tag)
                    /\ listFind(md, "X-Offload-Is-Weak") = <<"1">>
               ELSE /\ orig = etag
                    /\ listFind(md, "X-Offload-Is-Weak") = <<"0">>

\* the miss path of a request for an object with a weak ETag has written
\* its metadata file
C20_Witness ==
    \E w \in Workers :
      /\ origin.weak /\ pc[Child(w)] # "unborn"
      /\ pc[w] = "open_read"
      /\ loadMetadata(GMetaDataPath[w]) # <<>>
      /\ listFind(loadMetadata(GMetaDataPath[w]), "X-Offload-Caching-PID")
           = makeNum(Child(w))

\* C21: the metadata file the miss path has just written, loaded with
\* loadMetadata, gives back the list that was written: the same pairs in
\* the same iteration order.
C21_RoundTrip ==
    \A w \in Workers :
      (/\ pc[w] = "open_read" /\ pc[Child(w)] # "unborn"
       /\ dir[GMetaDataPath[w]] # NULL
       /\ inodes[dir[GMetaDataPath[w]]].data = metadata[w])
      => loadMetadata(GMetaDataPath[w]) = metadata[w]

\* C22: a request without a URI, or with a URI that does not start with a
\* slash, ends with status 400 or 403 and an error body, and the origin was
\* never asked.
C22_BadUri ==
    \A w \in Workers :
      (/\ pc[w] \in {"term", "exited"}
       /\ request[w].uri = <<>> \/ Head(request[w].uri) # "/")
      => /\ GHttpStatus[w] \in {400, 403}
         /\ errmsg[w] # <<>>
         /\ GFilePath[w] = NoPath /\ max[w] = 0

\* the value a sem_wait of the step would have found: a semaphore that
\* createSemaphore has yet to create starts at 1
SemBefore == IF sem.exists THEN sem.value ELSE 1

\* the step in which process p raises its holder counter from 0
Acquires(p) == GSemaphoreOwned[p] = 0 /\ GSemaphoreOwned'[p] > 0

\* the step in which process p, holding the mutex, calls getSemaphore or
\* putSemaphore and still holds it
Nests(p) ==
    /\ GSemaphoreOwned[p] > 0 /\ GSemaphoreOwned'[p] > 0
    /\ GSemaphoreOwned'[p] # GSemaphoreOwned[p]

\* C23: a step in which a request worker raises its holder counter from 0
\* takes one unit from the semaphore, also when the step creates or opens
\* the semaphore; a nested call of a worker that holds the mutex leaves the
\* semaphore's value alone.
C23_WaitOnAcquire ==
    [][\A w \in Workers :
         /\ Acquires(w) => (sem'.exists /\ sem'.value = SemBefore - 1)
         /\ Nests(w) => sem'.value = sem.value]_vars

\* a live process, request worker or caching worker, whose holder counter
\* says it is inside a mutex-protected section
Inside(p) ==
    pc[p] \notin {"start", "unborn", "exited"} /\ GSemaphoreOwned[p] > 0

\* C24: the semaphore, once created, has the value 0 or 1, and it has the
\* value 0 exactly when some process is inside a mutex-protected section.
C24_BinarySemaphore ==
    sem.exists =>
      /\ sem.value \in {0, 1}
      /\ sem.value = 0 <=> \E p \in Procs : Inside(p)

\* the step of terminate() taken by a request worker whose holder counter
\* is above 0
ExitsHolding(w) ==
    pc[w] = "term" /\ GSemaphoreOwned[w] > 0 /\ pc'[w] = "exited"

\* C25: terminate() of a request worker whose holder counter is above 0
\* leaves the counter at 0 and the semaphore one unit higher, hence above
\* 0: exactly one post, after which a sem_wait does not block.
C25_ResidualRelease ==
    [][\A w \in Workers :
         ExitsHolding(w) =>
           /\ GSemaphoreOwned'[w] = 0
           /\ sem'.value = sem.value + 1
           /\ ~getSemaphoreBlocks([sem |-> sem', g |-> TRUE, o |-> 0])]_vars

\* C25, its cases: a worker has left through terminate() after the 403 of
\* setDownloadRecord, and another after a failure() of the miss path, both
\* raised with the mutex held.
C25_Witness ==
    /\ \E w \in Workers :
         /\ pc[w] = "exited" /\ GSemaphoreOwned[w] = 0
         /\ errmsg[w] = <<DUPE_FORBID_TEXT>>
    /\ \E w \in Workers :
         /\ pc[w] = "exited" /\ GSemaphoreOwned[w] = 0
         /\ errmsg[w] = <<"Couldn't update cached data.">>

\* the step in which request worker w runs the scan of setDownloadRecord
Scans(w) == pc[w] = "start" /\ pc'[w] = "sdr_write"

\* a slot the scan should take for free: no pid, or the pid of a process
\* that is no longer alive
FreeSlot(i) == process_dead(shm[i].pid)

\* C26: the scan counts as duplicates exactly the slots of live processes
\* that carry the request's digest, and it ends with a slot for the new
\* record whenever some slot has no pid or the pid of a dead process,
\* whatever digest that slot stores.
C26_DeadSlotsFree ==
    [][\A w \in Workers :
         Scans(w) =>
           /\ dupes'[w] =
                Cardinality({i \in 1..MaxRecords :
                               /\ ~FreeSlot(i)
                               /\ shm[i].sha1 = Sha1(GRemoteAddr'[w], Guri)})
           /\ (\E i \in 1..MaxRecords : FreeSlot(i))
                => /\ GMyDownload'[w] # NULL
                   /\ FreeSlot(GMyDownload'[w])]_vars

\* the scan of request worker w has ended without a slot and with fewer
\* duplicates than the cap
Untracked(w) ==
    /\ GAllDownloads[w] /\ GMyDownload[w] = NULL
    /\ dupes[w] < GMAXDUPEDOWNLOADS

\* C27: a scan that ends without a slot changes no record; the GET it
\* belongs to, with fewer duplicates than the cap, leaves setDownloadRecord
\* for the HEAD of the origin with no status set, no error printed and the
\* table as it was; terminate() of that worker changes no record either.
C27_FullTableAdmits ==
    [][\A w \in Workers :
         /\ (Scans(w) /\ GMyDownload'[w] = NULL) => shm' = shm
         /\ (pc[w] = "sdr_write" /\ Untracked(w) /\ pc'[w] # pc[w])
              => /\ pc'[w] = "head" /\ shm' = shm
                 /\ GHttpStatus'[w] = 0 /\ errmsg'[w] = <<>>
         /\ (pc[w] = "term" /\ Untracked(w) /\ pc'[w] # pc[w])
              => shm' = shm]_vars

\* C27, its case: every slot holds the record of a process with another
\* digest, and the request of client 10.0.0.1 has been served with 200 and
\* has left through terminate().
C27_Witness ==
    /\ \A i \in 1..MaxRecords :
         shm[i] = [pid |-> DeadPid, sha1 |-> Sha1("10.0.0.2", Guri)]
    /\ pc[1] = "exited" /\ GHttpStatus[1] = 200
    /\ sent[1] # <<>>

\* metadata md and HEAD hd differ on key, both having it
Differs(md, hd, key) ==
    listHas(md, key) /\ listHas(hd, key)
      /\ listFind(md, key) # listFind(hd, key)

\* the header conditions under which the entry is to be stale
StaleHeaders(md, hd) ==
    \/ ~listHas(md, "Content-Length")
    \/ ~listHas(md, "ETag")
    \/ ~listHas(md, "Last-Modified")
    \/ Differs(md, hd, "Content-Length")
    \/ Differs(md, hd, "ETag")
    \/ /\ Differs(md, hd, "Last-Modified")
       /\ \/ ~listHas(md, "X-Offload-Is-Weak")
          \/ listFind(md, "X-Offload-Is-Weak") = <<"0">>

\* C28: a cache decision taken on metadata that lacks Content-Length, ETag
\* or Last-Modified, or differs from the HEAD on Content-Length or ETag, or
\* differs on Last-Modified with X-Offload-Is-Weak "0" or absent, goes to
\* the miss path.
C28_StaleHeaders ==
    [][\A w \in Workers :
         (/\ pc[w] = "cache" /\ pc'[w] # "cache"
          /\ StaleHeaders(loadMetadata(GMetaDataPath[w]), head[w]))
         => pc'[w] = "miss_get"]_vars

\* the pid the metadata names as its caching worker, 0 when it names none
CacherPid(md) ==
    IF listHas(md, "X-Offload-Caching-PID")
    THEN atoi64(listFind(md, "X-Offload-Caching-PID")) ELSE 0

\* filedata at path exists and is complete, or is still being written
FileUsable(md, path) ==
    /\ dir[path] # NULL
    /\ \/ FileSize(dir[path]) = atoi64(listFind(md, "Content-Length"))
       \/ CacherPid(md) > 0 /\ Alive(CacherPid(md))

\* C29: at a cache decision whose header comparisons pass, the entry is
\* fresh exactly when filedata exists and either has Content-Length bytes
\* or is being written by the live process the metadata names; a fresh
\* entry is opened for reading, any other goes to the miss path.
C29_FileFreshness ==
    [][\A w \in Workers :
         LET md == loadMetadata(GMetaDataPath[w])
         IN  (/\ pc[w] = "cache" /\ pc'[w] # "cache"
              /\ headersMostRecent(md, head[w]))
             => /\ cachedMetadataMostRecent(md, head[w], GFilePath[w])
                     <=> FileUsable(md, GFilePath[w])
                /\ pc'[w] = IF FileUsable(md, GFilePath[w])
                            THEN "open_read" ELSE "miss_get"]_vars

\* C29, its case: a request has taken the miss path although the headers
\* of the metadata passed, because filedata is short of Content-Length and
\* the caching worker the metadata names is dead.
C29_Witness ==
    \E w \in Workers :
      LET md == loadMetadata(GMetaDataPath[w])
      IN  /\ pc[w] = "miss_get"
          /\ headersMostRecent(md, head[w])
          /\ dir[GFilePath[w]] # NULL
          /\ FileSize(dir[GFilePath[w]]) <
               atoi64(listFind(md, "Content-Length"))
          /\ CacherPid(md) > 0 /\ ~Alive(CacherPid(md))

\* the step in which request worker w has the origin's answer to its HEAD
\* and acts on it
HeadAnswered(w) ==
    /\ pc[w] = "head" /\ pc'[w] # "head"
    /\ errmsg'[w] # <<"Couldn't connect to offload base server.">>

\* request worker w ends in failure() with status code and body msg
FailsWith(w, code, msg) ==
    pc'[w] = "term" /\ GHttpStatus'[w] = code /\ errmsg'[w] = msg

\* C30: what follows the origin's answer to the HEAD is decided in this
\* order: 401 or a WWW-Authenticate header gives 403; else a status other
\* than 200 is forwarded, with the origin's Location when it sent one;
\* else a missing ETag, Content-Length or Last-Modified gives 403; else the
\* request goes on to the Range header and the cache decision.
C30_HeadOutcome ==
    [][\A w \in Workers :
         HeadAnswered(w) =>
           IF origin.code = 401 \/ origin.auth
           THEN FailsWith(w, 403,
                          <<"Offload server doesn't do protected content.">>)
           ELSE IF origin.code # 200
           THEN /\ FailsWith(w, origin.code,
                             <<"H", "T", "T", "P", "/", "1", ".", "1", " ">>
                               \o makeNum(origin.code))
                /\ resp'[w].location = origin.location
           ELSE IF origin.missing # {}
           THEN FailsWith(w, 403,
                          <<"Offload server doesn't do dynamic content.">>)
           ELSE /\ max'[w] = origin.clen
                /\ \/ pc'[w] = "cache"
                   \/ /\ pc'[w] = "term"
                      /\ GHttpStatus'[w] \in {200, 206, 400}]_vars

\* C30, its case: the origin answered 200 with a WWW-Authenticate header
\* and the request was refused with 403.
C30_Witness ==
    \E w \in Workers :
      /\ pc[w] = "term" /\ origin.code = 200 /\ origin.auth
      /\ request[w].uri = GuriChars /\ isget(request[w])
      /\ GHttpStatus[w] = 403
      /\ errmsg[w] = <<"Offload server doesn't do protected content.">>

\* the request of worker w is a GET or HEAD of the object without a Range
\* header the program looks at
WholeRequest(w) ==
    /\ request[w].uri = GuriChars
    /\ isget(request[w]) \/ ishead(request[w])
    /\ request[w].range = <<>> \/ request[w].ifrange

\* error bodies of failures that have nothing to do with the request: the
\* origin could not be reached, a cache file could not be opened
Outage ==
    {<<"Couldn't connect to offload base server.">>,
     <<"Couldn't update cached data.">>,
     <<"Couldn't update metadata.">>,
     <<"Couldn't fork for caching.">>,
     <<"Couldn't access cached data.">>}

\* C31: a GET or HEAD without a Range header, or with If-Range, of an
\* object the origin answers with 200, ETag, Content-Length and
\* Last-Modified, once it is over and unless the origin or the cache files
\* could not be reached, has been answered 200 with the origin's
\* Content-Length and without Content-Range.
C31_WholeObject ==
    \A w \in Workers :
      (/\ pc[w] \in {"term", "exited"} /\ WholeRequest(w)
       /\ origin.code = 200 /\ ~origin.auth /\ origin.missing = {}
       /\ errmsg[w] \notin Outage)
      => /\ GHttpStatus[w] = 200
         /\ resp[w].code = 200
         /\ resp[w].clen = makeNum(origin.clen)
         /\ resp[w].crange = <<>>

\* C32: whenever the metadata file of a CacheKey records a Content-Length
\* and the filedata file of the key exists, filedata has at most that many
\* bytes.
C32_SizeBound ==
    \A k \in Keys :
      LET md == loadMetadata(<<"metadata", k>>)
      IN  (listHas(md, "Content-Length") /\ dir[<<"filedata", k>>] # NULL)
          => FileSize(dir[<<"filedata", k>>])
               <= atoi64(listFind(md, "Content-Length"))

\* C33: a request worker that is in the streaming loop leaves it and goes
\* through terminate(), whatever its caching worker does or fails to do.
C33_StreamEnds ==
    \A w \in Workers : (pc[w] = "stream") ~> (pc[w] = "exited")

\* C33, its case: the caching worker is gone and has removed the entry, and
\* the reader has left the loop after waiting GTIMEOUT + 1 seconds for
\* bytes that never came.
C33_Witness ==
    \E w \in Workers :
      /\ pc[w] = "term" /\ io[w] # NULL /\ br[w] <= endRange(w)
      /\ idle[w] = GTIMEOUT + 1
      /\ pc[Child(w)] = "exited" /\ dir[GFilePath[w]] = NULL

\* s is t with a run of trimmed characters before it and another after it
Trimmed(s, t) ==
    \E i \in 0..Len(s), j \in 0..Len(s) :
      /\ i + Len(t) + j = Len(s)
      /\ \A n \in 1..i : s[n] \in TrimChars
      /\ \A n \in 1..j : s[Len(s) + 1 - n] \in TrimChars
      /\ SubSeq(s, i + 1, i + Len(t)) = t

\* C34: once a request has its cache paths, they are filedata-<k> and
\* metadata-<k> for one key k that is not empty, neither starts nor ends
\* with a space, tab, vertical tab, double quote or apostrophe, and is the
\* ETag of the processed HEAD without its leading and trailing run of such
\* characters.
C34_KeyNonEmpty ==
    \A w \in Workers :
      (GFilePath[w] # NoPath /\ head[w] # <<>>) =>
        LET k == GFilePath[w][2]
        IN  /\ GFilePath[w] = <<"filedata", k>>
            /\ GMetaDataPath[w] = <<"metadata", k>>
            /\ Trimmed(listFind(head[w], "ETag"), k)
            /\ k # <<>>
            /\ Head(k) \notin TrimChars /\ k[Len(k)] \notin TrimChars

\* the keys of a valid entry that come from the origin or from
\* serverMainline before the fork
EntryKeys ==
    {"Content-Length", "ETag", "Last-Modified", "Content-Type",
     "X-Offload-Orig-URL", "X-Offload-Hostname", "X-Offload-Orig-ETag",
     "X-Offload-Is-Weak", "X-Offload-Caching-PID"}

\* C35: a metadata file that has been written has every key of a valid
\* entry, Content-Type application/octet-stream when the origin sent none,
\* X-Offload-Is-Weak "0" or "1", and as X-Offload-Caching-PID the pid of a
\* caching worker that was forked to write the filedata of the same key.
C35_MetadataComplete ==
    \A k \in Keys :
      LET md == loadMetadata(<<"metadata", k>>)
          pid == atoi64(listFind(md, "X-Offload-Caching-PID"))
      IN  md # <<>> =>
            /\ \A key \in EntryKeys : listHas(md, key)
            /\ listFind(md, "Content-Type")
                 = <<"application/octet-stream">>
            /\ listFind(md, "X-Offload-Is-Weak") \in {<<"0">>, <<"1">>}
            /\ listFind(md, "X-Offload-Caching-PID") = makeNum(pid)
            /\ pid \in Children /\ pid \notin Workers
            /\ pc[pid] # "unborn"
            /\ GFilePath[ParentOf(pid)] = <<"filedata", k>>

\* C35, its case: the metadata of a weak ETag has been written and the
\* caching worker it names is copying the object.
C35_Witness ==
    \E w \in Workers :
      LET md == loadMetadata(GMetaDataPath[w])
      IN  /\ GMetaDataPath[w] # NoPath
          /\ md # <<>> /\ metaout[w] = NULL
          /\ listFind(md, "X-Offload-Is-Weak") = <<"1">>
          /\ listFind(md, "X-Offload-Caching-PID") = makeNum(Child(w))
          /\ pc[Child(w)] = "c_loop" /\ cbr[w] > 0

\* fork() failed in the miss path of request worker w, which is on its way
\* to terminate()
ForkFailed(w) ==
    pc[w] = "term" /\ errmsg[w] = <<"Couldn't fork for caching.">>

\* C36: the step of the miss path in which fork() fails leaves neither
\* cache file of the key under its name, so no metadata file of the key
\* names a caching pid, sets the status 500 and starts no caching worker;
\* the terminate() that follows releases the mutex with one post.
C36_ForkFailure ==
    [][\A w \in Workers :
         /\ (pc[w] = "miss_open" /\ ForkFailed(w)') =>
              /\ dir'[GFilePath[w]] = NULL
              /\ dir'[GMetaDataPath[w]] = NULL
              /\ GHttpStatus'[w] = 500
              /\ pc'[Child(w)] = pc[Child(w)]
              /\ GSemaphoreOwned'[w] > 0
         /\ (ForkFailed(w) /\ pc'[w] = "exited") =>
              /\ GSemaphoreOwned'[w] = 0
              /\ sem'.value = sem.value + 1
              /\ UNCHANGED fsVars]_vars

\* C36, its case: the entry of an earlier request had gone stale, the miss
\* path of the next request truncated its files, fork() failed and both
\* files are gone.
C36_Witness ==
    \E w \in Workers :
      /\ ForkFailed(w) /\ originChanges > 0
      /\ \E v \in Workers \ {w} :
           pc[v] = "exited" /\ GFilePath[v] = GFilePath[w]
      /\ dir[GFilePath[w]] = NULL /\ dir[GMetaDataPath[w]] = NULL

\* slot i holds the record that the live request worker v wrote with its
\* own pid
OwnsSlot(v, i) ==
    /\ Alive(v) /\ pc[v] \notin {"start", "sdr_write"}
    /\ GMyDownload[v] = i /\ shm[i].pid = v

\* C37: a step of another process leaves alone every slot that a live
\* request worker has written with its own pid.
C37_SlotOwnership ==
    [][\A v \in Workers, i \in 1..MaxRecords :
         (OwnsSlot(v, i) /\ pc'[v] = pc[v]) => shm'[i] = shm[i]]_vars

\* ------------------------------ overlapping requests, a changing origin
\* a request arrives while no other request worker is between its start
\* and its streaming loop: the sections under the mutex never overlap, the
\* streaming of one request overlaps with all of the next, and the origin
\* object may be replaced
BeginMix(w) ==
    /\ \A v \in Workers \ {w} :
         pc[v] \in {"start", "stream", "term", "exited"}
    /\ Begin(w)

NextMix == (\E w \in Workers : BeginMix(w)) \/ Run \/ OriginChange

SpecMix == InitStrong /\ [][NextMix]_vars

\* the body bytes of a response that a caching worker copied from the
\* origin; Generation is the Last-Modified of the object a byte came from
Copied(w) == {i \in DOMAIN sent[w] : sent[w][i] # Hole}
Generation(b) == b[1]

\* C38: all body bytes sent in one response were copied from one and the
\* same origin object, never some from the object a later caching worker
\* fetched.
C38_OneGeneration ==
    \A w \in Workers : \A i, j \in Copied(w) :
        Generation(sent[w][i]) = Generation(sent[w][j])

\* --------------------------------------------- an object that goes away
\* requests one after another; the origin may stop serving the object
NextGone == (\E w \in Workers : BeginSeq(w)) \/ Run \/ OriginGone

SpecGone == Init /\ [][NextGone]_vars

\* the bytes a filedata file holds that were copied from an origin response
Stored ==
    UNION {{inodes[dir[path]].data[i] : i \in DOMAIN inodes[dir[path]].data} :
             path \in {q \in FilePaths : dir[q] # NULL}}

\* C39: filedata holds only bytes of the body of a GET the origin answered
\* with 200, never bytes of the body of a response with another status.
C39_OnlyOkBodies == \A b \in Stored \ {Hole} : Generation(b) \in LastMods

\* the caching worker c takes a step: an iteration of its loop, the entry
\* into nukeRequestFromCache, the unlinks, or its end
CacheStep(c) ==
    /\ pc[c] \in {"c_loop", "c_nuke"}
    /\ \/ pc'[c] # pc[c]
       \/ cbr'[ParentOf(c)] # cbr[ParentOf(c)]

\* C40: a caching worker lives with the holder counter it inherited, 1, or
\* 2 inside nukeRequestFromCache, is never made to wait for the semaphore,
\* and none of its steps, its exit included, changes the semaphore.
C40_CacheLeavesSemaphore ==
    [][\A c \in Children :
         /\ pc[c] = "c_loop" =>
              GSemaphoreOwned[c] = 1 /\ ~getSemaphoreBlocks(SemOf(c))
         /\ pc[c] = "c_nuke" => GSemaphoreOwned[c] = 2
         /\ CacheStep(c) => sem' = sem]_vars

\* a caching worker is inside nukeRequestFromCache while a request worker
\* other than its parent is in the section of the miss path
C40_Witness ==
    \E c \in Children :
        /\ pc[c] = "c_nuke" /\ GSemaphoreOwned[c] = 2
        /\ \E w \in Workers \ {ParentOf(c)} :
             /\ pc[w] \in {"miss_get", "miss_open", "miss_meta"}
             /\ GSemaphoreOwned[w] > 0
====
